---- MODULE Spec2Model ----
(***************************************************************************)
(* Book Of Hours linking scan (Joplin plugin).                             *)
(*                                                                         *)
(* Strings are sequences of one-character tokens.  A note id is a single   *)
(* token (Joplin ids are fixed-width hexadecimal strings, so one id is a   *)
(* substring of a line exactly when it occurs in it as a whole).  The      *)
(* token Diamond stands for the character U+2B29 that ends a marker.       *)
(***************************************************************************)
EXTENDS Integers, Sequences, FiniteSets, TLC

\* ------------------------------------------------------------------ bounds
MaxMerges == 3
MaxCopies == 2
MaxSessions == 2
MaxCycles == 2
MaxFailures == 1

\* ------------------------------------------------------------- characters
NL == "\n"
Diamond == "<>"
None == "none"
Empty == <<>>

\* --------------------------------------------------------- string helpers
\* s.includes(sub)
Includes(s, sub) ==
    \E i \in 0..(Len(s) - Len(sub)) : SubSeq(s, i + 1, i + Len(sub)) = sub

\* index of the first occurrence of the character sep in s, 0 when absent
FirstIndex(s, sep) ==
    IF \E i \in 1..Len(s) : s[i] = sep
    THEN CHOOSE i \in 1..Len(s) : s[i] = sep /\ \A j \in 1..(i - 1) : s[j] # sep
    ELSE 0

\* s.split(sep): always at least one piece
RECURSIVE Split(_, _)
Split(s, sep) ==
    LET i == FirstIndex(s, sep)
    IN  IF i = 0 THEN <<s>>
        ELSE <<SubSeq(s, 1, i - 1)>> \o Split(SubSeq(s, i + 1, Len(s)), sep)

\* pieces.join(sep)
RECURSIVE Join(_, _)
Join(pieces, sep) ==
    IF Len(pieces) = 0 THEN Empty
    ELSE IF Len(pieces) = 1 THEN pieces[1]
    ELSE pieces[1] \o <<sep>> \o Join(Tail(pieces), sep)

\* ------------------------------------------------------------ paste parser
Rejected == [ok |-> FALSE, title |-> Empty, body |-> Empty]

\* the parser that takes three lines and no more
splitRawExact(raw) ==
    LET split == Split(raw, NL)
    IN  IF Len(split) # 3 \/ split[2] # Empty
        THEN Rejected
        ELSE [ok |-> TRUE, title |-> split[1], body |-> split[3]]

splitRaw(raw) ==
    LET split == Split(raw, NL)
    IN  IF Len(split) < 3 \/ split[2] # Empty
        THEN Rejected
        ELSE [ok |-> TRUE, title |-> split[1],
              body |-> Join(SubSeq(split, 3, Len(split)), NL)]

\* ------------------------------------------------------ influence link codec
formatInfluence(title, id) ==
    <<"[">> \o title \o <<"]", "(", ":", "/", id, ")", " ", Diamond>>

\* one line matches .*?\[.*?\]\(.*?\).*?<diamond> somewhere in it
LineHasMarker(line) ==
    \E j \in 2..(Len(line) - 1) :
        /\ line[j] = "]" /\ line[j + 1] = "("
        /\ \E i \in 1..(j - 1) : line[i] = "["
        /\ \E k \in (j + 2)..Len(line) :
              /\ line[k] = ")"
              /\ \E l \in (k + 1)..Len(line) : line[l] = Diamond

NoMatch == [found |-> FALSE, pre |-> Empty, line |-> Empty, post |-> Empty]

\* INFLUENCE_RE.exec(body): group 1 is lazy and "." never crosses a line
\* break, so group 2 is the whole first line that holds a marker, group 1
\* the lines before it (with their line break) and group 3 the rest.
INFLUENCE_RE(body) ==
    LET lines == Split(body, NL)
        hits == {n \in 1..Len(lines) : LineHasMarker(lines[n])}
    IN  IF hits = {} THEN NoMatch
        ELSE LET n == CHOOSE x \in hits : \A y \in hits : x <= y
             IN  [found |-> TRUE,
                  pre |-> IF n = 1 THEN Empty
                          ELSE Join(SubSeq(lines, 1, n - 1), NL) \o <<NL>>,
                  line |-> lines[n],
                  post |-> IF n = Len(lines) THEN Empty
                           ELSE <<NL>> \o Join(SubSeq(lines, n + 1, Len(lines)), NL)]

\* influencesLine.includes(influenceId)
LineIncludesId(line, id) == \E i \in 1..Len(line) : line[i] = id

\* addInfluence without its "skip if influence already exists" test
InsertInfluenceNoSkip(body, title, id) ==
    LET link == formatInfluence(title, id)
        separated == INFLUENCE_RE(body)
    IN  IF body = Empty THEN link
        ELSE IF ~separated.found THEN link \o <<NL, NL>> \o body
        ELSE separated.pre \o separated.line \o <<" ">> \o link \o separated.post

\* index of the last Diamond of a line, 0 when it has none
LastDiamond(line) ==
    IF \E i \in 1..Len(line) : line[i] = Diamond
    THEN CHOOSE i \in 1..Len(line) :
            line[i] = Diamond /\ \A j \in (i + 1)..Len(line) : line[j] # Diamond
    ELSE 0

\* addInfluence with the link put right after the last marker of the line,
\* ahead of the text that follows it
InsertInfluenceAfterLastMarker(body, title, id) ==
    LET link == formatInfluence(title, id)
        separated == INFLUENCE_RE(body)
        k == LastDiamond(separated.line)
    IN  IF body = Empty THEN link
        ELSE IF ~separated.found THEN link \o <<NL, NL>> \o body
        ELSE IF LineIncludesId(separated.line, id) THEN body
        ELSE separated.pre \o SubSeq(separated.line, 1, k) \o <<" ">> \o link
                 \o SubSeq(separated.line, k + 1, Len(separated.line))
                 \o separated.post

\* the part of addInfluence after the id is known (lines 209-229)
InsertInfluence(body, title, id) ==
    LET link == formatInfluence(title, id)
        separated == INFLUENCE_RE(body)
    IN  IF body = Empty THEN link
        ELSE IF ~separated.found THEN link \o <<NL, NL>> \o body
        ELSE IF LineIncludesId(separated.line, id) THEN body
        ELSE separated.pre \o separated.line \o <<" ">> \o link \o separated.post

\* ------------------------------------------------------------ merge engine
\* uninfluenced.find(i => i === title), used as a condition: find returns the
\* element itself, and the empty string is falsy
UninfluencedFind(uninf, title) ==
    /\ \E i \in 1..Len(uninf) : uninf[i] = title
    /\ title # Empty

\* the callback without its duplicate-click test
MergeRuleNoDuplicate(title, body, parsed, uninf) ==
    IF title = Empty THEN "fill"
    ELSE IF title = parsed.title THEN "same"
    ELSE IF UninfluencedFind(uninf, parsed.title) THEN "uninfluenced"
    ELSE "influence"

\* the callback with the uninfluenced test ahead of the same-title test
MergeRuleUninfluencedFirst(title, body, parsed, uninf) ==
    IF title = Empty THEN "fill"
    ELSE IF Includes(body, parsed.body) THEN "duplicate"
    ELSE IF UninfluencedFind(uninf, parsed.title) THEN "uninfluenced"
    ELSE IF title = parsed.title THEN "same"
    ELSE "influence"

\* the branch the merge callback takes (lines 158-173)
MergeRule(title, body, parsed, uninf) ==
    IF title = Empty THEN "fill"
    ELSE IF Includes(body, parsed.body) THEN "duplicate"
    ELSE IF title = parsed.title THEN "same"
    ELSE IF UninfluencedFind(uninf, parsed.title) THEN "uninfluenced"
    ELSE "influence"

\* the {title, body} the callback returns on the branches with no store call
MergePlain(title, body, parsed, rule) ==
    CASE rule = "fill" -> [title |-> parsed.title, body |-> parsed.body]
      [] rule = "duplicate" -> [title |-> title, body |-> body]
      [] rule = "same" ->
            [title |-> title, body |-> body \o <<NL, NL>> \o parsed.body]
      [] rule = "uninfluenced" ->
            [title |-> title,
             body |-> body \o <<NL, NL, "*">> \o parsed.title
                           \o <<"*", NL, NL>> \o parsed.body]
      [] OTHER -> [title |-> title, body |-> body]

\* ------------------------------------------------------- external note store
NoteIdSeq == <<"n1", "n2", "n3", "n4", "n5">>
NoteIds == {NoteIdSeq[i] : i \in 1..Len(NoteIdSeq)}
TagIdSeq == <<"t1", "t2">>
TagIds == {TagIdSeq[i] : i \in 1..Len(TagIdSeq)}
InfluenceFolder == "fI"

Absent == [exists |-> FALSE, title |-> Empty, body |-> Empty, parent |-> None]

\* a note the user has deleted: its id is never given to another note
Gone == [exists |-> FALSE, title |-> Empty, body |-> Empty, parent |-> "gone"]

\* the id the store gives the next created note (None when the pool is used up)
NewNoteId(ns) ==
    IF \E i \in 1..Len(NoteIdSeq) : ns[NoteIdSeq[i]] = Absent
    THEN NoteIdSeq[CHOOSE i \in 1..Len(NoteIdSeq) :
                      /\ ns[NoteIdSeq[i]] = Absent
                      /\ \A j \in 1..(i - 1) : ns[NoteIdSeq[j]] # Absent]
    ELSE None

\* joplin.data.post(['notes'], null, {parent_id, title, body})
PostNote(ns, title, body, parent) ==
    [ns EXCEPT ![NewNoteId(ns)] =
        [exists |-> TRUE, title |-> title, body |-> body, parent |-> parent]]

\* joplin.data.put(['notes', id], null, {title, body}) on an existing note
PutNote(ns, id, title, body) ==
    [ns EXCEPT ![id] = [@ EXCEPT !.title = title, !.body = body]]

\* session is the run of the command in which the plugin created the tag
NoTag == [exists |-> FALSE, title |-> Empty, session |-> 0]

NewTagId(ts) ==
    IF \E i \in 1..Len(TagIdSeq) : ~ts[TagIdSeq[i]].exists
    THEN TagIdSeq[CHOOSE i \in 1..Len(TagIdSeq) :
                     /\ ~ts[TagIdSeq[i]].exists
                     /\ \A j \in 1..(i - 1) : ts[TagIdSeq[j]].exists]
    ELSE None

\* --------------------------------------------------------- reference index
\* influences.get(title) / tags.get(title): None stands for undefined
MapGet(map, title) == IF title \in DOMAIN map THEN map[title] ELSE None

\* map.set(title, id)
MapSet(map, title, id) == [t \in DOMAIN map \cup {title} |->
                              IF t = title THEN id ELSE map[t]]

EmptyMap == [t \in {} |-> None]

\* -------------------------------------------------------------------- state
VARIABLES
    notes,              \* store: note id -> [exists, title, body, parent]
    tagStore,           \* store: tag id -> [exists, title]
    attached,           \* store: set of <<tag id, note id>> links
    clipboard,          \* the system clipboard
    selectedNote,       \* workspace.selectedNote(): a note id or None
    selectedFolder,     \* workspace.selectedFolder(): a folder id or None
    setting,            \* the boh_uninfluenced setting
    influences,         \* cache: influence title -> note id
    influenceFolderId,  \* cache: id of the influence notebook
    tags,               \* cache: tag title -> tag id
    uninfluenced,       \* cache: the setting, split
    activeId,           \* module-level activeId
    scanPc,             \* where linkingScan / clipboardScan stands
    scanChain,          \* the checkClipboard closure of the current cycle
    handled,            \* the current session has begun handling a paste
    pc,                 \* per closure: the await checkClipboard is suspended at
    killswitch,         \* per closure: killswitch
    previous,           \* per closure: previous
    first,              \* per closure: clipboardScan still awaits this call
    h,                  \* per closure: locals of the handler in flight
    copies, sessions, cycles, failures,   \* counters that bound the run
    doc, last, merges,  \* the Document of the merge-only specification
    version,            \* the source file whose paginatedGet is run
    listing,            \* store: the pages of the influence folder's listing
    pageCalls,          \* the page numbers paginatedGet has asked for
    pageStack           \* the items held by the calls that await a later page

vars == <<notes, tagStore, attached, clipboard, selectedNote, selectedFolder,
          setting, influences, influenceFolderId, tags, uninfluenced, activeId,
          scanPc, scanChain, handled, pc, killswitch, previous, first, h,
          copies, sessions, cycles, failures, doc, last, merges,
          version, listing, pageCalls, pageStack>>

storeVars == <<notes, tagStore, attached>>
envVars == <<selectedNote, selectedFolder, setting>>
cacheVars == <<influences, influenceFolderId, tags, uninfluenced>>
scanVars == <<scanPc, scanChain, handled, sessions, cycles>>
chainVars == <<pc, killswitch, previous, first, h>>
mergeVars == <<doc, last, merges>>
pageVars == <<version, listing, pageCalls, pageStack>>

MaxChains == 2
Chains == 1..MaxChains

\* ------------------------------------------------------ the inputs explored
TitleRose == <<"R">>
TitleMoth == <<"M">>
TitleLetter == <<"U">>

RawRose == <<"R", NL, NL, "d">>
RawRoseMore == <<"R", NL, NL, "e">>
RawMoth == <<"M", NL, NL, "m">>
RawCandle == <<"C", NL, NL, "c", NL, "k">>
RawLetter == <<"U", NL, NL, "u">>
RawNoTitle == <<NL, NL, "z">>
RawBad == <<"x", NL, "y">>

\* boh_uninfluenced values: two titles; a title that is also a note title;
\* the empty setting
DefaultSetting == <<"U", ";", "V">>
Settings == {DefaultSetting, <<"U", ";", "R">>, Empty}

\* parent_id of the folders of the workspace: "f2" is top level
FolderParent(f) == IF f = "f3" THEN "f2" ELSE None

NoNotes == [n \in NoteIds |-> Absent]
NoTags == [t \in TagIds |-> NoTag]
Note(title, body, parent) ==
    [exists |-> TRUE, title |-> title, body |-> body, parent |-> parent]

\* what the user has in Joplin when the plugin starts
Worlds ==
    { [notes |-> NoNotes, note |-> None, folder |-> None],
      [notes |-> NoNotes, note |-> None, folder |-> "f3"],
      [notes |-> [NoNotes EXCEPT !["n1"] = Note(TitleRose, <<"d">>, "f2")],
       note |-> "n1", folder |-> "f2"],
      [notes |-> [NoNotes EXCEPT !["n1"] = Note(Empty, Empty, "f2")],
       note |-> "n1", folder |-> "f2"],
      [notes |-> [NoNotes EXCEPT !["n1"] = Note(TitleRose, <<"d", " ", "M">>, "f2")],
       note |-> None, folder |-> "f3"],
      [notes |-> [NoNotes EXCEPT !["n1"] = Note(TitleMoth, <<"m">>, InfluenceFolder),
                                 !["n2"] = Note(TitleRose, <<"d">>, "f2")],
       note |-> "n2", folder |-> "f2"] }

NoSnapshot == [id |-> None, title |-> Empty, body |-> Empty, parent |-> None]
NoDoc == [title |-> Empty, body |-> Empty]

\* the locals of one run of the paste handler
NoHandler ==
    [current |-> Empty, parsed |-> Rejected, shape |-> "none",
     startActive |-> None, firstOfSession |-> FALSE, firstOfCycle |-> FALSE,
     fellBack |-> FALSE,
     initialNote |-> NoSnapshot, input |-> NoSnapshot, ret |-> "none",
     rule |-> "none", result |-> NoDoc, target |-> None,
     getId |-> None, putId |-> None, parent |-> None,
     influenceId |-> None, tagId |-> None, attachId |-> None,
     mergeCalls |-> 0, writes |-> 0, error |-> "none"]

NoLast == [rule |-> "none", parsed |-> Rejected, prev |-> Rejected,
           before |-> NoDoc, noteCreated |-> FALSE, tagCreated |-> FALSE]

InitStore(w) ==
    /\ notes = w.notes
    /\ tagStore = NoTags
    /\ attached = {}
    /\ selectedNote = w.note
    /\ selectedFolder = w.folder

InitPlugin ==
    /\ influences = EmptyMap
    /\ influenceFolderId = None
    /\ tags = EmptyMap
    /\ uninfluenced = <<>>
    /\ activeId = None
    /\ scanPc = "idle"
    /\ scanChain = 1
    /\ handled = FALSE
    /\ pc = [c \in Chains |-> "off"]
    /\ killswitch = [c \in Chains |-> FALSE]
    /\ previous = [c \in Chains |-> Empty]
    /\ first = [c \in Chains |-> FALSE]
    /\ h = [c \in Chains |-> NoHandler]

\* no listing is being paged
NoPaging ==
    /\ version = "part_000"
    /\ listing = <<>>
    /\ pageCalls = <<>>
    /\ pageStack = <<>>

Init ==
    /\ \E w \in Worlds : InitStore(w)
    /\ setting = DefaultSetting
    /\ clipboard = Empty
    /\ InitPlugin
    /\ copies = 0 /\ sessions = 0 /\ cycles = 0 /\ failures = 0
    /\ doc = NoDoc /\ last = NoLast /\ merges = 0
    /\ NoPaging

\* ------------------------------------------------------ the merge callback
\* addTag(title) from its call to its first await (lines 185-196); body is
\* what addInfluence returned.  A cached tag goes straight to the attach
\* call, whose argument {id: activeId} is read when the call is made.
AddTagStart(hc, body) ==
    LET tagId == MapGet(tags, hc.parsed.title)
        hb == [hc EXCEPT !.result = [title |-> hc.input.title, body |-> body]]
    IN  IF tagId # None
        THEN [pc |-> "attach",
              h |-> [hb EXCEPT !.tagId = tagId, !.attachId = activeId]]
        ELSE [pc |-> "tagSearch", h |-> hb]

\* usingExistingNote(input) from its call to the first await inside
\* process(cleanup(input)) or, when there is none, to the put (lines 98-99
\* and 156-172).  The put's path ['notes', activeId] is read when it is made.
ProcessStart(hc, input, ret, target) ==
    LET rule == MergeRule(input.title, input.body, hc.parsed, uninfluenced)
        h1 == [hc EXCEPT !.input = input, !.ret = ret, !.target = target,
                         !.rule = rule, !.mergeCalls = @ + 1]
        id == MapGet(influences, hc.parsed.title)
    IN  IF rule # "influence"
        THEN [pc |-> "put",
              h |-> [h1 EXCEPT
                       !.result = MergePlain(input.title, input.body, hc.parsed, rule),
                       !.putId = activeId]]
        ELSE IF id = None
        THEN [pc |-> "postInfluence", h |-> [h1 EXCEPT !.parent = influenceFolderId]]
        ELSE AddTagStart([h1 EXCEPT !.influenceId = id],
                         InsertInfluence(input.body, hc.parsed.title, id))

\* usingNewNote(parent_id) up to its post: process({title: '', body: ''})
\* takes the fill branch (lines 103-108)
NewNoteStart(hc, parent) ==
    [pc |-> "postNote",
     h |-> [hc EXCEPT !.input = NoSnapshot, !.ret = "return", !.rule = "fill",
                      !.result = MergePlain(Empty, Empty, hc.parsed, "fill"),
                      !.parent = parent, !.mergeCalls = @ + 1]]

\* the full note the workspace or the search hands back
Snapshot(n) ==
    IF n # None /\ notes[n].exists
    THEN [id |-> n, title |-> notes[n].title, body |-> notes[n].body,
          parent |-> notes[n].parent]
    ELSE NoSnapshot

\* withNote after the search found nothing (lines 133-144), up to the next await
AfterSearchMiss(hc) ==
    LET initialNote == hc.initialNote
    IN  IF initialNote.id # None /\ initialNote.title = Empty /\ initialNote.body = Empty
        THEN ProcessStart(hc, initialNote, "rule3", initialNote.id)
        ELSE IF initialNote.id # None /\ initialNote.parent # None
        THEN NewNoteStart(hc, initialNote.parent)
        ELSE [pc |-> "selectedFolder", h |-> hc]

\* a rejected promise inside checkClipboard: the first call of a cycle is
\* awaited by clipboardScan and linkingScan, so the command ends with the
\* error; a call started by setTimeout has nobody awaiting it.  The locals
\* of the handler that ended this way are kept, with the kind of error.
Throw(c, error) ==
    /\ pc' = [pc EXCEPT ![c] = "off"]
    /\ h' = [h EXCEPT ![c] =
                [NoHandler EXCEPT !.error = error, !.shape = h[c].shape,
                                  !.fellBack = h[c].fellBack,
                                  !.mergeCalls = h[c].mergeCalls,
                                  !.writes = h[c].writes,
                                  !.target = h[c].target,
                                  !.result = h[c].result]]
    /\ first' = [first EXCEPT ![c] = FALSE]
    /\ killswitch' = [killswitch EXCEPT ![c] = FALSE]
    /\ previous' = [previous EXCEPT ![c] = Empty]
    /\ scanPc' = IF first[c] THEN "idle" ELSE scanPc
    /\ UNCHANGED <<scanChain, handled, sessions, cycles>>

\* fn(current) has returned: previous = current, then the delay is awaited
HandlerEnds(c, hc) ==
    /\ pc' = [pc EXCEPT ![c] = "delay"]
    /\ h' = [h EXCEPT ![c] = hc]
    /\ previous' = [previous EXCEPT ![c] = hc.current]
    /\ UNCHANGED <<killswitch, first, scanVars>>

\* the handler goes on to its next await
Goto(c, next) ==
    /\ pc' = [pc EXCEPT ![c] = next.pc]
    /\ h' = [h EXCEPT ![c] = next.h]
    /\ UNCHANGED <<killswitch, previous, first, scanVars>>

\* -------------------------------------------------------- checkClipboard
\* setTimeout runs checkClipboard (lines 262-263): a closure whose popup has
\* closed stops, another one asks for the clipboard text
TimerFires(c) ==
    /\ pc[c] = "timer"
    /\ IF killswitch[c]
       THEN /\ pc' = [pc EXCEPT ![c] = "off"]
            /\ killswitch' = [killswitch EXCEPT ![c] = FALSE]
            /\ previous' = [previous EXCEPT ![c] = Empty]
       ELSE /\ pc' = [pc EXCEPT ![c] = "reading"]
            /\ UNCHANGED <<killswitch, previous>>
    /\ UNCHANGED <<storeVars, envVars, cacheVars, scanVars, clipboard, activeId,
                   first, h, copies, failures, mergeVars, pageVars>>

\* a malformed capture that ends the polling of its closure
SkipMalformedStops(c, current) ==
    /\ pc' = [pc EXCEPT ![c] = "off"]
    /\ previous' = [previous EXCEPT ![c] = current]
    /\ UNCHANGED <<h, handled>>

\* fn(current) returns at once for a malformed capture (line 155); it is
\* remembered and the delay is awaited (lines 266-268)
SkipMalformed(c, current) ==
    /\ pc' = [pc EXCEPT ![c] = "delay"]
    /\ previous' = [previous EXCEPT ![c] = current]
    /\ UNCHANGED <<h, handled>>

\* readText() resolves (lines 263-265, 154-155, 112-120): an unchanged
\* clipboard goes to the delay, a malformed one is remembered and skipped, a
\* paste enters withNote, which asks for the active note or the selected one
ReadText(c) ==
    LET current == clipboard
        parsed == splitRaw(current)
        h0 == [NoHandler EXCEPT
                 !.current = current, !.parsed = parsed,
                 !.shape = IF activeId # None THEN "continue" ELSE "start",
                 !.startActive = activeId, !.getId = activeId,
                 !.firstOfSession = ~handled /\ ~killswitch[c],
                 !.firstOfCycle = ~killswitch[c] /\ previous[c] = Empty]
    IN  /\ pc[c] = "reading"
        /\ IF current = previous[c]
           THEN /\ pc' = [pc EXCEPT ![c] = "delay"]
                /\ UNCHANGED <<previous, h, handled>>
           ELSE IF ~parsed.ok
           THEN SkipMalformed(c, current)
           ELSE /\ pc' = [pc EXCEPT ![c] =
                            IF activeId # None THEN "getActive" ELSE "selectedNote"]
                /\ h' = [h EXCEPT ![c] = h0]
                /\ handled' = (handled \/ ~killswitch[c])
                /\ UNCHANGED previous
        /\ UNCHANGED <<storeVars, envVars, cacheVars, clipboard, activeId, scanPc,
                       scanChain, sessions, cycles, killswitch, first, copies,
                       failures, mergeVars, pageVars>>

\* what the store does with a call that names a note it no longer has: it
\* answers with an error, or with nothing
NotFoundOutcomes == {"throw", "nothing"}

\* get(['notes', activeId], {fields: ['title', 'body']}) resolves (lines
\* 113-118): the note comes back with the two fields asked for, so its id is
\* undefined; for a note that is gone the store throws, or it hands back
\* nothing and withNote goes to the start logic
GetActive(c) ==
    LET n == h[c].getId
        activeNote == [id |-> None, title |-> notes[n].title,
                       body |-> notes[n].body, parent |-> None]
    IN  /\ pc[c] = "getActive"
        /\ IF notes[n].exists
           THEN Goto(c, ProcessStart(h[c], activeNote, "continue", n))
           ELSE \E outcome \in NotFoundOutcomes :
                   IF outcome = "throw" THEN Throw(c, "notFound")
                   ELSE Goto(c, [pc |-> "selectedNote",
                                 h |-> [h[c] EXCEPT !.fellBack = TRUE]])
        /\ UNCHANGED <<storeVars, envVars, cacheVars, clipboard, activeId,
                       copies, failures, mergeVars, pageVars>>

\* workspace.selectedNote() resolves (lines 120-129): rule 1, else the search
SelectedNote(c) ==
    LET initialNote == Snapshot(selectedNote)
        h1 == [h[c] EXCEPT !.initialNote = initialNote]
    IN  /\ pc[c] = "selectedNote"
        /\ IF initialNote.id # None /\ initialNote.title = h[c].parsed.title
           THEN Goto(c, ProcessStart(h1, initialNote, "rule1", initialNote.id))
           ELSE Goto(c, [pc |-> "search", h |-> h1])
        /\ UNCHANGED <<storeVars, envVars, cacheVars, clipboard, activeId,
                       copies, failures, mergeVars, pageVars>>

\* the notes a search for the query may rank first: the store searches the
\* text of title and body
SearchHits(query) ==
    {n \in NoteIds : /\ notes[n].exists
                     /\ query # Empty
                     /\ \/ Includes(notes[n].title, query)
                        \/ Includes(notes[n].body, query)}

\* get(['search'], {query: title, type: 'note', limit: 1}) resolves (lines
\* 124-139): rule 2 with the top match, else rules 3 and 4, else the folder
Search(c) ==
    /\ pc[c] = "search"
    /\ IF SearchHits(h[c].parsed.title) # {}
       THEN \E n \in SearchHits(h[c].parsed.title) :
                Goto(c, ProcessStart(h[c], Snapshot(n), "rule2", n))
       ELSE Goto(c, AfterSearchMiss(h[c]))
    /\ UNCHANGED <<storeVars, envVars, cacheVars, clipboard, activeId,
                   copies, failures, mergeVars, pageVars>>

\* workspace.selectedFolder() resolves (lines 140-144): rules 5 and 6
SelectedFolder(c) ==
    /\ pc[c] = "selectedFolder"
    /\ IF selectedFolder # None
       THEN Goto(c, NewNoteStart(h[c], FolderParent(selectedFolder)))
       ELSE Goto(c, NewNoteStart(h[c], None))
    /\ UNCHANGED <<storeVars, envVars, cacheVars, clipboard, activeId,
                   copies, failures, mergeVars, pageVars>>

\* addInfluence's post resolves (lines 203-229), then addTag starts
PostInfluence(c) ==
    LET id == NewNoteId(notes)
        title == h[c].parsed.title
    IN  /\ pc[c] = "postInfluence"
        /\ id # None
        /\ notes' = PostNote(notes, title, h[c].parsed.body, h[c].parent)
        /\ influences' = MapSet(influences, title, id)
        /\ Goto(c, AddTagStart([h[c] EXCEPT !.influenceId = id],
                               InsertInfluence(h[c].input.body, title, id)))
        /\ UNCHANGED <<tagStore, attached, envVars, influenceFolderId, tags,
                       uninfluenced, clipboard, activeId, copies, failures,
                       mergeVars, pageVars>>

\* the tags of the store a search for the title finds
TagHits(title) == {t \in TagIds : tagStore[t].exists /\ tagStore[t].title = title}

\* addTag's search resolves (lines 187-196)
TagSearch(c) ==
    LET title == h[c].parsed.title
    IN  /\ pc[c] = "tagSearch"
        /\ IF TagHits(title) # {}
           THEN \E t \in TagHits(title) :
                   /\ tags' = MapSet(tags, title, t)
                   /\ Goto(c, [pc |-> "attach",
                               h |-> [h[c] EXCEPT !.tagId = t, !.attachId = activeId]])
           ELSE /\ Goto(c, [pc |-> "tagCreate", h |-> h[c]])
                /\ UNCHANGED tags
        /\ UNCHANGED <<storeVars, envVars, influences, influenceFolderId,
                       uninfluenced, clipboard, activeId, copies, failures,
                       mergeVars, pageVars>>

\* addTag's post(["tags"]) resolves (lines 191-196)
TagCreate(c) ==
    LET t == NewTagId(tagStore)
        title == h[c].parsed.title
    IN  /\ pc[c] = "tagCreate"
        /\ t # None
        /\ tagStore' = [tagStore EXCEPT ![t] =
                            [exists |-> TRUE, title |-> title, session |-> sessions]]
        /\ tags' = MapSet(tags, title, t)
        /\ Goto(c, [pc |-> "attach",
                    h |-> [h[c] EXCEPT !.tagId = t, !.attachId = activeId]])
        /\ UNCHANGED <<notes, attached, envVars, influences, influenceFolderId,
                       uninfluenced, clipboard, activeId, copies, failures,
                       mergeVars, pageVars>>

\* what the store does with a call whose note id is null or undefined:
\* it answers with an error, or it lets the call pass without effect
BadIdOutcomes == {"throw", "ignored"}

\* addTag's post(["tags", tagId, "notes"], {id: activeId}) resolves (line
\* 196); process returns and usingExistingNote makes its put (lines 98-99)
Attach(c) ==
    LET next == [pc |-> "put", h |-> [h[c] EXCEPT !.putId = activeId]]
    IN  /\ pc[c] = "attach"
        /\ \/ /\ h[c].attachId # None
              /\ notes[h[c].attachId].exists
              /\ attached' = attached \cup {<<h[c].tagId, h[c].attachId>>}
              /\ Goto(c, next)
           \/ /\ h[c].attachId # None
              /\ ~notes[h[c].attachId].exists
              /\ UNCHANGED attached
              /\ \E outcome \in NotFoundOutcomes :
                    IF outcome = "throw" THEN Throw(c, "notFound") ELSE Goto(c, next)
           \/ /\ h[c].attachId = None
              /\ UNCHANGED attached
              /\ \E outcome \in BadIdOutcomes :
                    IF outcome = "throw" THEN Throw(c, "badId") ELSE Goto(c, next)
        /\ UNCHANGED <<notes, tagStore, envVars, cacheVars, clipboard, activeId,
                       copies, failures, mergeVars, pageVars>>

\* usingExistingNote after its put (lines 99-100 and 122-124): activeId
\* becomes the id of the note it was given; rule 1 has no return, so withNote
\* goes on to the search
AfterPut(c, hc) ==
    /\ activeId' = hc.input.id
    /\ IF hc.ret = "rule1"
       THEN Goto(c, [pc |-> "search", h |-> hc])
       ELSE HandlerEnds(c, hc)

\* put(['notes', activeId], null, result) resolves (line 99)
Put(c) ==
    LET id == h[c].putId
    IN  /\ pc[c] = "put"
        /\ \/ /\ id # None
              /\ notes[id].exists
              /\ notes' = PutNote(notes, id, h[c].result.title, h[c].result.body)
              /\ AfterPut(c, [h[c] EXCEPT !.writes = @ + 1])
           \/ /\ id # None
              /\ ~notes[id].exists
              /\ UNCHANGED notes
              /\ \E outcome \in NotFoundOutcomes :
                    IF outcome = "throw"
                    THEN Throw(c, "notFound") /\ UNCHANGED activeId
                    ELSE AfterPut(c, h[c])
           \/ /\ id = None
              /\ UNCHANGED notes
              /\ \E outcome \in BadIdOutcomes :
                    IF outcome = "throw"
                    THEN Throw(c, "badId") /\ UNCHANGED activeId
                    ELSE AfterPut(c, h[c])
        /\ UNCHANGED <<tagStore, attached, envVars, cacheVars, clipboard,
                       copies, failures, mergeVars, pageVars>>

\* usingNewNote's post resolves (lines 104-109)
PostNew(c) ==
    LET id == NewNoteId(notes)
    IN  /\ pc[c] = "postNote"
        /\ id # None
        /\ notes' = PostNote(notes, h[c].result.title, h[c].result.body, h[c].parent)
        /\ activeId' = id
        /\ HandlerEnds(c, [h[c] EXCEPT !.target = id, !.writes = @ + 1])
        /\ UNCHANGED <<tagStore, attached, envVars, cacheVars, clipboard,
                       copies, failures, mergeVars, pageVars>>

\* settings.value("boh_scanDelay") resolves and setTimeout is called (line
\* 268); the first call of a cycle returns to clipboardScan, which opens the
\* popup (lines 270-272)
Delay(c) ==
    /\ pc[c] = "delay"
    /\ pc' = [pc EXCEPT ![c] = "timer"]
    /\ h' = [h EXCEPT ![c] = NoHandler]
    /\ first' = [first EXCEPT ![c] = FALSE]
    /\ scanPc' = IF first[c] THEN "dialog" ELSE scanPc
    /\ UNCHANGED <<storeVars, envVars, cacheVars, clipboard, activeId, scanChain,
                   handled, sessions, cycles, killswitch, previous, copies,
                   failures, mergeVars, pageVars>>

\* the awaits of the handler that are calls to the note store
StoreCalls == {"getActive", "search", "postInfluence", "tagSearch", "tagCreate",
               "attach", "put", "postNote"}

\* ExternalStoreFailure: a store call of the handler throws
StoreFails(c) ==
    /\ pc[c] \in StoreCalls
    /\ failures < MaxFailures
    /\ failures' = failures + 1
    /\ Throw(c, "store")
    /\ UNCHANGED <<storeVars, envVars, cacheVars, clipboard, activeId, copies,
                   mergeVars, pageVars>>

\* ------------------------------------------------------------ linkingScan
\* the command is run: rescan() starts by clearing the influence cache
\* (lines 150, 52)
Execute ==
    /\ scanPc = "idle"
    /\ sessions < MaxSessions
    /\ cycles < MaxCycles
    /\ sessions' = sessions + 1
    /\ scanPc' = "rescan"
    /\ handled' = FALSE
    /\ influences' = EmptyMap
    /\ UNCHANGED <<storeVars, envVars, influenceFolderId, tags, uninfluenced,
                   clipboard, activeId, scanChain, cycles, chainVars, copies,
                   failures, mergeVars, pageVars>>

\* influences.set for every note of a listing, later notes overwriting
RECURSIVE CacheNotes(_, _)
CacheNotes(map, i) ==
    IF i > Len(NoteIdSeq) THEN map
    ELSE LET n == NoteIdSeq[i]
         IN  CacheNotes(IF notes[n].exists /\ notes[n].parent = InfluenceFolder
                        THEN MapSet(map, notes[n].title, n) ELSE map, i + 1)

\* tags.set for every tag whose title is a cached influence
RECURSIVE CacheTags(_, _, _)
CacheTags(map, infl, i) ==
    IF i > Len(TagIdSeq) THEN map
    ELSE LET t == TagIdSeq[i]
         IN  CacheTags(IF tagStore[t].exists /\ tagStore[t].title \in DOMAIN infl
                       THEN MapSet(map, tagStore[t].title, t) ELSE map, infl, i + 1)

\* the rest of rescan() (lines 53-75), then clipboardScan clears the
\* clipboard (line 257)
Rescan ==
    /\ scanPc = "rescan"
    /\ influenceFolderId' = InfluenceFolder
    /\ influences' = CacheNotes(influences, 1)
    /\ tags' = CacheTags(EmptyMap, influences', 1)
    /\ uninfluenced' = Split(setting, ";")
    /\ scanPc' = "writeText"
    /\ UNCHANGED <<storeVars, envVars, clipboard, activeId, scanChain, handled,
                   sessions, cycles, chainVars, copies, failures, mergeVars, pageVars>>

\* writeText("") resolves; a new closure (killswitch, previous) is made and
\* its first checkClipboard call asks for the clipboard (lines 257-263, 270)
WriteText(c) ==
    /\ scanPc = "writeText"
    /\ pc[c] = "off"
    /\ \A d \in Chains : pc[d] = "off" => c <= d
    /\ cycles < MaxCycles
    /\ cycles' = cycles + 1
    /\ clipboard' = Empty
    /\ scanChain' = c
    /\ scanPc' = "firstCheck"
    /\ pc' = [pc EXCEPT ![c] = "reading"]
    /\ killswitch' = [killswitch EXCEPT ![c] = FALSE]
    /\ previous' = [previous EXCEPT ![c] = Empty]
    /\ first' = [first EXCEPT ![c] = TRUE]
    /\ h' = [h EXCEPT ![c] = NoHandler]
    /\ UNCHANGED <<storeVars, envVars, cacheVars, activeId, handled, sessions,
                   copies, failures, mergeVars, pageVars>>

\* the popup closes with a button (lines 272-274, 177-181)
CloseDialog(result) ==
    /\ scanPc = "dialog"
    /\ killswitch' = [killswitch EXCEPT ![scanChain] = TRUE]
    /\ activeId' = None
    /\ scanPc' = IF result = "yes" THEN "writeText" ELSE "idle"
    /\ UNCHANGED <<storeVars, envVars, cacheVars, clipboard, scanChain, handled,
                   sessions, cycles, pc, previous, first, h, copies, failures,
                   mergeVars, pageVars>>

\* ------------------------------------------------------------ environment
ScanRaws == {RawRoseMore, RawMoth, RawBad}

\* the clipboard text has been seen by a checkClipboard call
Consumed ==
    \/ clipboard = Empty
    \/ \E c \in Chains : previous[c] = clipboard \/ h[c].current = clipboard

\* the user clicks a card in the game, after the last click was picked up
UserCopy(raw) ==
    /\ copies < MaxCopies
    /\ scanPc # "idle"
    /\ Consumed
    /\ raw # clipboard
    /\ copies' = copies + 1
    /\ clipboard' = raw
    /\ UNCHANGED <<storeVars, envVars, cacheVars, activeId, scanVars, chainVars,
                   failures, mergeVars, pageVars>>

\* the user deletes the active Document in Joplin while the popup is open
\* and no paste is being handled
DeleteNote ==
    /\ scanPc = "dialog"
    /\ activeId # None
    /\ notes[activeId].exists
    /\ \A c \in Chains : pc[c] \in {"off", "timer", "reading"}
    /\ notes' = [notes EXCEPT ![activeId] = Gone]
    /\ UNCHANGED <<tagStore, attached, envVars, cacheVars, clipboard, activeId,
                   scanVars, chainVars, copies, failures, mergeVars, pageVars>>

Step(c) ==
    \/ TimerFires(c) \/ ReadText(c) \/ GetActive(c) \/ SelectedNote(c)
    \/ Search(c) \/ SelectedFolder(c) \/ PostInfluence(c) \/ TagSearch(c)
    \/ TagCreate(c) \/ Attach(c) \/ Put(c) \/ PostNew(c) \/ Delay(c)
    \/ StoreFails(c)

Next ==
    \/ Execute
    \/ Rescan
    \/ \E c \in Chains : WriteText(c)
    \/ \E result \in {"yes", "no"} : CloseDialog(result)
    \/ \E raw \in ScanRaws : UserCopy(raw)
    \/ DeleteNote
    \/ \E c \in Chains : Step(c)

Spec == Init /\ [][Next]_vars

\* ------------------------------------------------- the merge engine alone
\* The merge callback (lines 156-175) applied to a Document held in doc, one
\* paste after the other, every store call answered at once.
RawLetterDup == <<"U", NL, NL, "d">>
MergeRaws == {RawRose, RawRoseMore, RawMoth, RawCandle, RawLetter, RawLetterDup,
              RawNoTitle}

\* the Documents a merge sequence starts from: none holds a marker
MergeDocs == {NoDoc, [title |-> TitleRose, body |-> <<"d">>]}

MergeStores ==
    {NoNotes, [NoNotes EXCEPT !["n1"] = Note(TitleMoth, <<"m">>, InfluenceFolder)]}

MergeInit ==
    /\ notes \in MergeStores
    /\ tagStore = NoTags
    /\ attached = {}
    /\ selectedNote = None
    /\ selectedFolder = None
    /\ setting \in Settings
    /\ clipboard = Empty
    /\ InitPlugin
    /\ copies = 0 /\ sessions = 0 /\ cycles = 0 /\ failures = 0
    /\ doc \in MergeDocs /\ last = NoLast /\ merges = 0
    /\ NoPaging

\* rescan() fills the caches before the first paste (lines 51-76)
MergeRescan ==
    /\ scanPc = "idle"
    /\ scanPc' = "merging"
    /\ influenceFolderId' = InfluenceFolder
    /\ influences' = CacheNotes(EmptyMap, 1)
    /\ tags' = CacheTags(EmptyMap, influences', 1)
    /\ uninfluenced' = Split(setting, ";")
    /\ UNCHANGED <<storeVars, envVars, clipboard, activeId, scanChain, handled,
                   sessions, cycles, chainVars, copies, failures, mergeVars, pageVars>>

\* the callback on a branch without store calls (lines 158-168, 174)
MergePlainPaste(raw) ==
    LET parsed == splitRaw(raw)
        rule == MergeRule(doc.title, doc.body, parsed, uninfluenced)
    IN  /\ scanPc = "merging"
        /\ merges < MaxMerges
        /\ parsed.ok
        /\ rule # "influence"
        /\ merges' = merges + 1
        /\ doc' = MergePlain(doc.title, doc.body, parsed, rule)
        /\ last' = [rule |-> rule, parsed |-> parsed, prev |-> last.parsed,
                    before |-> doc, noteCreated |-> FALSE, tagCreated |-> FALSE]
        /\ UNCHANGED <<storeVars, envVars, cacheVars, clipboard, activeId,
                       scanVars, chainVars, copies, failures, pageVars>>

\* the callback on the influence branch (lines 170-174): addInfluence
\* (lines 199-230), then addTag (lines 184-197)
MergeInfluencePaste(raw) ==
    LET parsed == splitRaw(raw)
        rule == MergeRule(doc.title, doc.body, parsed, uninfluenced)
        cachedId == MapGet(influences, parsed.title)
        influenceId == IF cachedId # None THEN cachedId ELSE NewNoteId(notes)
        cachedTag == MapGet(tags, parsed.title)
        foundTag == IF TagHits(parsed.title) # {}
                    THEN CHOOSE t \in TagHits(parsed.title) : TRUE
                    ELSE None
        tagId == IF cachedTag # None THEN cachedTag
                 ELSE IF foundTag # None THEN foundTag
                 ELSE NewTagId(tagStore)
    IN  /\ scanPc = "merging"
        /\ merges < MaxMerges
        /\ parsed.ok
        /\ rule = "influence"
        /\ influenceId # None /\ tagId # None
        /\ merges' = merges + 1
        /\ IF cachedId = None
           THEN /\ notes' = PostNote(notes, parsed.title, parsed.body, influenceFolderId)
                /\ influences' = MapSet(influences, parsed.title, influenceId)
           ELSE UNCHANGED <<notes, influences>>
        /\ IF cachedTag = None /\ foundTag = None
           THEN tagStore' = [tagStore EXCEPT ![tagId] =
                                [exists |-> TRUE, title |-> parsed.title,
                                 session |-> sessions]]
           ELSE UNCHANGED tagStore
        /\ tags' = IF cachedTag = None THEN MapSet(tags, parsed.title, tagId) ELSE tags
        /\ attached' = attached \cup {<<tagId, activeId>>}
        /\ doc' = [title |-> doc.title,
                   body |-> InsertInfluence(doc.body, parsed.title, influenceId)]
        /\ last' = [rule |-> rule, parsed |-> parsed, prev |-> last.parsed,
                    before |-> doc, noteCreated |-> (cachedId = None),
                    tagCreated |-> (cachedTag = None /\ foundTag = None)]
        /\ UNCHANGED <<envVars, influenceFolderId, uninfluenced, clipboard,
                       activeId, scanVars, chainVars, copies, failures, pageVars>>

MergeNext ==
    \/ MergeRescan
    \/ \E raw \in MergeRaws : MergePlainPaste(raw)
    \/ \E raw \in MergeRaws : MergeInfluencePaste(raw)

MergeSpec == MergeInit /\ [][MergeNext]_vars

\* ------------------------------------- the merge engine on linked Documents
\* The same callback, started from Documents whose body already holds an
\* influence line: a marker alone, a marker followed by text, and a marker
\* line between other lines.  Note n1 is the influence the markers point to.
LinkMoth == formatInfluence(TitleMoth, "n1")

LinkDocs ==
    { [title |-> TitleRose, body |-> LinkMoth],
      [title |-> TitleRose, body |-> LinkMoth \o <<" ", "t">>],
      [title |-> TitleRose, body |-> <<"p", NL>> \o LinkMoth \o <<" ", "t", NL, "s">>],
      [title |-> TitleRose, body |-> <<"[", "]", NL>> \o LinkMoth \o <<"t">>] }

LinkInit ==
    /\ notes = [NoNotes EXCEPT !["n1"] = Note(TitleMoth, <<"m">>, InfluenceFolder)]
    /\ tagStore = NoTags
    /\ attached = {}
    /\ selectedNote = None
    /\ selectedFolder = None
    /\ setting \in Settings
    /\ clipboard = Empty
    /\ InitPlugin
    /\ copies = 0 /\ sessions = 0 /\ cycles = 0 /\ failures = 0
    /\ doc \in LinkDocs /\ last = NoLast /\ merges = 0
    /\ NoPaging

LinkSpec == LinkInit /\ [][MergeNext]_vars

\* ------------------------------------------------------- the parser alone
\* splitRaw applied to every raw string of up to MaxRawLen characters, each a
\* letter or a line break
MaxRawLen == 6
RawAlphabet == {"a", NL}
ParseRaws == UNION {[1..n -> RawAlphabet] : n \in 0..MaxRawLen}

ParseInit ==
    /\ InitStore([notes |-> NoNotes, note |-> None, folder |-> None])
    /\ setting = DefaultSetting
    /\ clipboard \in ParseRaws
    /\ InitPlugin
    /\ copies = 0 /\ sessions = 0 /\ cycles = 0 /\ failures = 0
    /\ doc = NoDoc /\ last = NoLast /\ merges = 0
    /\ NoPaging

\* const parsed = splitRaw(raw) (line 154)
Parse ==
    /\ scanPc = "idle"
    /\ scanPc' = "parsed"
    /\ last' = [NoLast EXCEPT !.parsed = splitRaw(clipboard)]
    /\ UNCHANGED <<storeVars, envVars, cacheVars, clipboard, activeId, scanChain,
                   handled, sessions, cycles, chainVars, copies, failures, doc,
                   merges, pageVars>>

ParseSpec == ParseInit /\ [][Parse]_vars

\* ------------------------------------------------- the paged listing alone
\* rescan() with the influence folder's notes handed out in pages, run with
\* paginatedGet as each of the two source files has it.
MaxPages == 3
MaxRequests == 4
MaxPageSize == 2

Versions == {"part_000", "index.ts"}

\* the page the recursive call asks for: page + 1
NextPage(page) == page + 1

\* the recursive call without its third argument: page = page || 1
NextPageIndexTs(page) == 1

\* a listing of the first notes of the store, cut into pages of the sizes
RECURSIVE Paginate(_, _)
Paginate(sizes, from) ==
    IF Len(sizes) = 0 THEN <<>>
    ELSE <<SubSeq(NoteIdSeq, from, from + sizes[1] - 1)>>
             \o Paginate(Tail(sizes), from + sizes[1])

RECURSIVE Sum(_)
Sum(sizes) == IF Len(sizes) = 0 THEN 0 ELSE sizes[1] + Sum(Tail(sizes))

\* the listings the store may hold: an empty folder, or one to MaxPages
\* pages with one to MaxPageSize notes each
Listings ==
    {<< <<>> >>} \cup
    {Paginate(sizes, 1) :
        sizes \in {z \in UNION {[1..n -> 1..MaxPageSize] : n \in 1..MaxPages} :
                     Sum(z) <= Len(NoteIdSeq)}}

RECURSIVE Flatten(_)
Flatten(pages) == IF Len(pages) = 0 THEN <<>> ELSE pages[1] \o Flatten(Tail(pages))

\* the title of a listed influence note
ListedTitle(n) == <<"T", n>>

PageInit ==
    /\ version \in Versions
    /\ listing \in Listings
    /\ notes = [n \in NoteIds |->
                   IF \E i \in 1..Len(Flatten(listing)) : Flatten(listing)[i] = n
                   THEN Note(ListedTitle(n), Empty, InfluenceFolder)
                   ELSE Absent]
    /\ tagStore = NoTags
    /\ attached = {}
    /\ selectedNote = None
    /\ selectedFolder = None
    /\ setting = DefaultSetting
    /\ clipboard = Empty
    /\ InitPlugin
    /\ copies = 0 /\ sessions = 0 /\ cycles = 0 /\ failures = 0
    /\ doc = NoDoc /\ last = NoLast /\ merges = 0
    /\ pageCalls = <<>>
    /\ pageStack = <<>>

\* rescan() up to the first get of paginatedGet (lines 52-62 and 38-42)
PageRescan ==
    /\ scanPc = "idle"
    /\ scanPc' = "listing"
    /\ influences' = EmptyMap
    /\ influenceFolderId' = InfluenceFolder
    /\ pageCalls' = <<1>>
    /\ pageStack' = <<>>
    /\ UNCHANGED <<storeVars, envVars, tags, uninfluenced, clipboard, activeId,
                   scanChain, handled, sessions, cycles, chainVars, copies,
                   failures, mergeVars, version, listing>>

\* influences.set for every item of the listing, in order (lines 63-65)
RECURSIVE CacheItems(_, _)
CacheItems(map, items) ==
    IF Len(items) = 0 THEN map
    ELSE CacheItems(MapSet(map, notes[items[1]].title, items[1]), Tail(items))

\* the get of a page resolves (lines 42-47): with has_more the call keeps
\* its items and awaits the recursive call; without it the items go back up
\* the calls, each concatenating its own in front, and rescan caches them
PageGet ==
    LET page == pageCalls[Len(pageCalls)]
        items == listing[page]
        has_more == page < Len(listing)
        next == IF version = "index.ts" THEN NextPageIndexTs(page) ELSE NextPage(page)
    IN  /\ scanPc = "listing"
        /\ IF has_more
           THEN /\ Len(pageCalls) < MaxRequests
                /\ pageCalls' = Append(pageCalls, next)
                /\ pageStack' = Append(pageStack, items)
                /\ UNCHANGED <<scanPc, influences>>
           ELSE /\ influences' = CacheItems(influences, Flatten(pageStack) \o items)
                /\ pageStack' = <<>>
                /\ scanPc' = "listed"
                /\ UNCHANGED pageCalls
        /\ UNCHANGED <<storeVars, envVars, influenceFolderId, tags, uninfluenced,
                       clipboard, activeId, scanChain, handled, sessions, cycles,
                       chainVars, copies, failures, mergeVars, version, listing>>

\* the rest of rescan() (lines 67-75): the store has no tags, so the tag
\* listing is one empty page
PageTags ==
    /\ scanPc = "listed"
    /\ scanPc' = "rescanned"
    /\ tags' = CacheTags(EmptyMap, influences, 1)
    /\ uninfluenced' = Split(setting, ";")
    /\ UNCHANGED <<storeVars, envVars, influences, influenceFolderId, clipboard,
                   activeId, scanChain, handled, sessions, cycles, chainVars,
                   copies, failures, mergeVars, pageVars>>

PageNext == PageRescan \/ PageGet \/ PageTags

PageSpec == PageInit /\ [][PageNext]_vars

\* ------------------------------------------------------------------ claims
\* a handler is in flight in closure c: fn(current) was called with a paste
\* and has neither returned nor thrown
InFlight(c) ==
    pc[c] \in StoreCalls \cup {"selectedNote", "selectedFolder"}

\* the handler of closure c has ended: fn returned, or the store refused a
\* call the handler addressed to no note
HandlerEnded(c) ==
    /\ h[c].shape # "none"
    /\ \/ pc[c] = "delay"
       \/ pc[c] = "off" /\ h[c].error = "badId"

\* C1: in the start shape every accepted paste has exactly one of the six
\* rules applied: the merge function was invoked exactly once and exactly one
\* note was updated or created when the handler of the paste has ended.
C1_OneRulePerPaste ==
    \A c \in Chains :
        (HandlerEnded(c) /\ h[c].shape = "start")
            => (h[c].mergeCalls = 1 /\ h[c].writes = 1)

\* C2: at most one paste handler is in flight at any moment, and no
\* clipboard check reads the clipboard while a handler is in flight.
C2_OneHandlerInFlight ==
    \A c, d \in Chains :
        (c # d /\ InFlight(c)) => ~(InFlight(d) \/ pc[d] = "reading")

\* C3: the scan loop leaves a popup cycle (clipboardScan returns) only when
\* no handler of that cycle is in flight.
C3_ExitWaitsForHandler ==
    [][(scanPc = "dialog" /\ scanPc' # "dialog") => ~InFlight(scanChain)]_vars

\* C4: within one popup cycle, once the active Document id is a note id it
\* keeps that value.
C4_ActiveIdKept ==
    [][(activeId # None /\ scanPc \in {"firstCheck", "dialog"} /\ scanPc' = scanPc)
          => activeId' = activeId]_vars

\* C5: when the handler of an accepted paste has ended, the store's copy of
\* the note the resolver selected has the title and body of the merge result.
C5_TargetPersisted ==
    \A c \in Chains :
        (HandlerEnded(c) /\ h[c].target # None)
            => /\ notes[h[c].target].title = h[c].result.title
               /\ notes[h[c].target].body = h[c].result.body

\* C6: when a scan session begins handling its first paste, the active
\* Document id is none.
C6_SessionStartsFresh ==
    \A c \in Chains : h[c].firstOfSession => h[c].startActive = None

\* C8: between two rebuilds of the Reference Index an influence title that
\* is cached keeps its note id and is not removed.
C8_InfluenceEntryKept ==
    [][(scanPc # "rescan" /\ scanPc' # "rescan")
          => \A t \in DOMAIN influences :
                t \in DOMAIN influences' /\ influences'[t] = influences[t]]_vars

\* the note ids the markers of a line point to, one entry per marker
MarkerPositions(line) ==
    {i \in 3..Len(line) : line[i] \in NoteIds /\ line[i - 1] = "/" /\ line[i - 2] = ":"}

\* C7: a Document that started without markers never has two link markers
\* to the same note id on its influence line.
C7_NoDuplicateLink ==
    LET line == INFLUENCE_RE(doc.body).line
    IN  \A i, j \in MarkerPositions(line) : line[i] = line[j] => i = j

\* C7 witness: an influence already linked was pasted again and skipped,
\* with two markers on the line
C7_Witness ==
    /\ last.rule = "influence"
    /\ doc = last.before
    /\ Cardinality(MarkerPositions(INFLUENCE_RE(doc.body).line)) = 2

\* C9: merging the same paste again, when its body is already part of the
\* Document body, changes neither title nor body and creates nothing.
C9_RepeatedPasteNoChange ==
    (/\ last.rule # "none"
     /\ last.prev = last.parsed
     /\ Includes(last.before.body, last.parsed.body))
        => (doc = last.before /\ ~last.noteCreated /\ ~last.tagCreated)

\* C9 witness: a same-title continuation was merged twice
C9_Witness ==
    /\ last.prev = last.parsed
    /\ last.rule = "duplicate"
    /\ last.before.title = last.parsed.title
    /\ last.before.body # last.parsed.body
    /\ doc = last.before

InUninfluencedSet(title) == \E i \in 1..Len(uninfluenced) : uninfluenced[i] = title

\* C10: for a Document with a title, a paste whose body the Document body
\* already holds changes nothing, whatever its title; and a paste with the
\* Document's title that is also an uninfluenced title is appended as a plain
\* continuation, without heading, influence note or tag.
C10_RuleOrder ==
    (last.rule # "none" /\ last.before.title # Empty)
        => /\ Includes(last.before.body, last.parsed.body)
                => (doc = last.before /\ ~last.noteCreated /\ ~last.tagCreated)
           /\ (/\ ~Includes(last.before.body, last.parsed.body)
               /\ last.parsed.title = last.before.title
               /\ InUninfluencedSet(last.parsed.title))
                => /\ doc.title = last.before.title
                   /\ doc.body = last.before.body \o <<NL, NL>> \o last.parsed.body
                   /\ ~last.noteCreated /\ ~last.tagCreated

\* C10 witness: both cases happened, each with a title of the UninfluencedSet
C10_Witness ==
    /\ last.before.title # Empty
    /\ InUninfluencedSet(last.parsed.title)
    /\ ~Includes(last.before.body, last.parsed.body)
    /\ last.parsed.title = last.before.title
    /\ last.rule = "same"

\* the text of a line after its last marker
Trailing(line) == SubSeq(line, LastDiamond(line) + 1, Len(line))

\* the paste just merged was an influence whose id was not yet linked, into
\* a Document whose influence line has text after its last marker
LinkedBeforeText ==
    LET separated == INFLUENCE_RE(last.before.body)
    IN  /\ last.rule = "influence"
        /\ separated.found
        /\ Trailing(separated.line) # Empty
        /\ ~LineIncludesId(separated.line, MapGet(influences, last.parsed.title))

\* C11 as stated: the new marker goes right after the last existing marker
\* and before the text that follows it on the line.
C11_LinkBeforeTrailingText ==
    LET separated == INFLUENCE_RE(last.before.body)
        k == LastDiamond(separated.line)
        link == formatInfluence(last.parsed.title, MapGet(influences, last.parsed.title))
    IN  LinkedBeforeText
            => doc.body = separated.pre \o SubSeq(separated.line, 1, k) \o <<" ">>
                              \o link \o Trailing(separated.line) \o separated.post

\* C11 amended: the new marker is appended at the end of the influence line,
\* after the text that follows the last marker; the other lines are kept.
C11_LinkAtEndOfLine ==
    LET lines == Split(last.before.body, NL)
        n == CHOOSE x \in 1..Len(lines) :
                /\ LineHasMarker(lines[x])
                /\ \A y \in 1..(x - 1) : ~LineHasMarker(lines[y])
        link == formatInfluence(last.parsed.title, MapGet(influences, last.parsed.title))
    IN  LinkedBeforeText
            => doc.body = Join([lines EXCEPT ![n] = @ \o <<" ">> \o link], NL)

\* C11 witness: Candle was linked into a Document whose marker is followed
\* by text, and the body changed
C11_Witness ==
    /\ LinkedBeforeText
    /\ last.parsed.title = <<"C">>
    /\ doc.body # last.before.body

\* the positions of the line breaks of a raw string
LineBreaks(raw) == {i \in 1..Len(raw) : raw[i] = NL}

C13_FailureEndsSession ==
    [][\A c \in Chains :
          (/\ failures' = failures + 1
           /\ pc[c] \in StoreCalls /\ pc'[c] = "off"
           /\ c = scanChain /\ ~killswitch[c]
           /\ scanPc \in {"firstCheck", "dialog"})
              => scanPc' = "idle"]_vars

\* C14: in the continue shape, when the active Document is gone from the
\* store, no error ends the handler, the paste is resolved by the start
\* logic and the note it selects holds the merge result.
C14_MissingActiveFallsBack ==
    \A c \in Chains :
        /\ ~(pc[c] = "off" /\ h[c].shape = "continue" /\ h[c].error = "notFound")
        /\ (h[c].fellBack /\ pc[c] = "delay")
              => /\ h[c].target # None
                 /\ notes[h[c].target].exists
                 /\ notes[h[c].target].title = h[c].result.title
                 /\ notes[h[c].target].body = h[c].result.body

\* C15: within one scan session at most one tag is created for a title.
C15_OneTagPerTitle ==
    \A t, u \in TagIds :
        (/\ tagStore[t].exists /\ tagStore[u].exists
         /\ tagStore[t].title = tagStore[u].title
         /\ tagStore[t].session = tagStore[u].session)
            => t = u

\* C16: a note that start-logic rule 2 takes from the title search has
\* exactly the paste's title.
C16_SearchHitHasTitle ==
    \A c \in Chains :
        h[c].ret = "rule2" => h[c].input.title = h[c].parsed.title

\* C17: the tag of an influence paste is attached to the note the resolver
\* selected as the target Document of that paste.
C17_TagOnTarget ==
    \A c \in Chains :
        pc[c] = "attach" => h[c].attachId = h[c].target

\* C18: the first accepted paste of a cycle that follows a close with
\* "another" finds the active Document id none and is resolved by the start
\* logic (in the first run of the command every cycle but the first follows
\* such a close, and the first one starts with the id none).
C18_NextCycleStartsFresh ==
    \A c \in Chains :
        (sessions = 1 /\ h[c].firstOfCycle)
            => (h[c].startActive = None /\ h[c].shape = "start")

\* C19: a clipboard check whose popup has closed starts no paste handler.
C19_NoHandlerAfterClose ==
    [][\A c \in Chains :
          (pc[c] = "reading" /\ killswitch[c])
              => pc'[c] \notin {"getActive", "selectedNote"}]_vars

\* C20: a malformed capture changes neither the active Document id nor the
\* store nor the Reference Index, makes no store call, and its check goes on
\* to schedule the next one.
C20_MalformedIsNoOp ==
    [][\A c \in Chains :
          (/\ pc[c] = "reading" /\ pc'[c] # "reading"
           /\ clipboard # previous[c]
           /\ ~splitRaw(clipboard).ok)
              => /\ pc'[c] = "delay"
                 /\ previous'[c] = clipboard
                 /\ UNCHANGED <<activeId, storeVars, cacheVars>>]_vars

\* C20 witness: a closure that skipped a malformed capture is handling a
\* later well-formed paste
C20_Witness ==
    \E c \in Chains :
        /\ previous[c] # Empty
        /\ ~splitRaw(previous[c]).ok
        /\ InFlight(c)
        /\ h[c].parsed.ok

\* C21: with either source file's paginatedGet the listing of a folder of n
\* pages asks for the pages 1..n, each once and in increasing order, never
\* for more pages than there are, and after the rebuild every note of the
\* influence folder is in the title-to-note mapping.
C21_ListingComplete ==
    /\ \A i \in 1..Len(pageCalls) : pageCalls[i] = i
    /\ Len(pageCalls) <= Len(listing)
    /\ scanPc \in {"listed", "rescanned"}
          => /\ Len(pageCalls) = Len(listing)
             /\ \A n \in NoteIds :
                   (notes[n].exists /\ notes[n].parent = InfluenceFolder)
                       => MapGet(influences, notes[n].title) = n

====
